---- MODULE Spec2Model ----
(***************************************************************************)
(* Model of src/markdown-renderer.ts (class MarkdownRenderer).             *)
(*                                                                         *)
(* A JavaScript string is a sequence of non-empty atoms.  Text the regular *)
(* expression or the sort looks into (issue titles, the base issue URL,    *)
(* contributor lines) is written one character per atom; the constant      *)
(* pieces of the templates are one atom each.  "" is the empty sequence.   *)
(* A value that may be undefined is None (undefined) or Some(v).           *)
(* Objects held by reference (the commits of a release) are addressed by   *)
(* their index in release.commits, so that the in-place edit of an issue   *)
(* title is seen by every later read of the same commit.                   *)
(***************************************************************************)
EXTENDS Integers, Sequences, FiniteSets, TLC

None == <<>>
Some(v) == <<v>>
Val(o) == o[1]

\* const x = ...: the value is computed once, where the declaration stands,
\* and Body reads it under its name.
With(x, Body(_)) == Body(x)

\* ---------------------------------------------------------------- strings

\* Array.prototype.join on an array of strings.
RECURSIVE Join(_, _)
Join(parts, sep) ==
  IF parts = <<>> THEN <<>>
  ELSE IF Len(parts) = 1 THEN parts[1]
  ELSE parts[1] \o sep \o Join(Tail(parts), sep)

\* JavaScript truthiness of a string | undefined.
Truthy(o) == o # None /\ Val(o) # <<>>

\* Array.prototype.filter(Boolean) on an array of string | undefined: the
\* strings that are neither undefined nor "".
RECURSIVE FilterBoolean(_)
FilterBoolean(parts) ==
  IF parts = <<>> THEN <<>>
  ELSE IF Truthy(parts[1]) THEN <<Val(parts[1])>> \o FilterBoolean(Tail(parts))
  ELSE FilterBoolean(Tail(parts))

\* Array.prototype.indexOf(x) !== -1
Includes(arr, x) == \E k \in 1..Len(arr) : arr[k] = x

Digit == {"0", "1", "2", "3", "4", "5", "6", "7", "8", "9"}

\* String(n) for a non-negative integer, as the template ${issue.number}
\* computes it.
RECURSIVE NumberToString(_)
NumberToString(n) ==
  LET d == <<"0", "1", "2", "3", "4", "5", "6", "7", "8", "9">>[(n % 10) + 1]
  IN IF n < 10 THEN <<d>> ELSE NumberToString(n \div 10) \o <<d>>

\* The /i flag: the characters the pattern names, folded to lower case.
ToLower(c) ==
  CASE c = "F" -> "f" [] c = "I" -> "i" [] c = "X" -> "x" [] c = "C" -> "c"
    [] c = "L" -> "l" [] c = "O" -> "o" [] c = "S" -> "s" [] c = "E" -> "e"
    [] c = "R" -> "r" [] c = "V" -> "v" [] c = "D" -> "d" [] c = "T" -> "t"
    [] OTHER -> c

\* ------------------------------------------------------- COMMIT_FIX_REGEX
\* /(fix|close|resolve)(e?s|e?d)? [T#](\d+)/i

\* Does the literal lit (lower case) stand in s at position i, ignoring case?
LiteralAt(s, i, lit) ==
  /\ i + Len(lit) - 1 <= Len(s)
  /\ \A k \in 1..Len(lit) : ToLower(s[i + k - 1]) = lit[k]

Keywords == << <<"f","i","x">>, <<"c","l","o","s","e">>,
               <<"r","e","s","o","l","v","e">> >>

\* The alternatives of (e?s|e?d)? in the order the engine tries them; the
\* empty one last, because ? is greedy.
Suffixes == << <<"e","s">>, <<"s">>, <<"e","d">>, <<"d">>, <<>> >>

\* \d+ is greedy: the index of the last digit of the run starting at i.
RECURSIVE DigitsEnd(_, _)
DigitsEnd(s, i) ==
  IF i + 1 <= Len(s) /\ s[i + 1] \in Digit THEN DigitsEnd(s, i + 1) ELSE i

\* " [T#](\d+)" at position i: the index of the last matched character, or 0.
TailAt(s, i) ==
  IF /\ i + 2 <= Len(s)
     /\ s[i] = " "
     /\ ToLower(s[i + 1]) \in {"t", "#"}
     /\ s[i + 2] \in Digit
  THEN DigitsEnd(s, i + 2) ELSE 0

\* The match that starts at position i, if any: [last |-> index of its last
\* character (0: no match), digits |-> the text of group 3].
MatchAt(s, i) ==
  LET tries == { <<k, x>> \in (1..Len(Keywords)) \X (1..Len(Suffixes)) :
                   /\ ToLower(s[i]) = Keywords[k][1]
                   /\ LiteralAt(s, i, Keywords[k] \o Suffixes[x])
                   /\ TailAt(s, i + Len(Keywords[k]) + Len(Suffixes[x])) > 0 }
  IN IF tries = {} THEN [last |-> 0, digits |-> <<>>]
     ELSE LET t == CHOOSE t \in tries :
                     \A u \in tries : t[1] < u[1] \/ (t[1] = u[1] /\ t[2] <= u[2])
              from == i + Len(Keywords[t[1]]) + Len(Suffixes[t[2]])
              last == TailAt(s, from)
          IN [last |-> last, digits |-> SubSeq(s, from + 2, last)]

\* The leftmost position at which the pattern matches, or 0.  (A match
\* starts with f, c or r in either case; the other positions are skipped
\* without a try.)
RECURSIVE SearchFrom(_, _)
SearchFrom(s, i) ==
  IF i > Len(s) THEN 0
  ELSE IF s[i] \in {"f", "F", "c", "C", "r", "R"} /\ MatchAt(s, i).last > 0 THEN i
  ELSE SearchFrom(s, i + 1)

\* title.match(COMMIT_FIX_REGEX) is not null
COMMIT_FIX_REGEX(s) == SearchFrom(s, 1) > 0

\* title.replace(COMMIT_FIX_REGEX, "Closes [#$3](${baseIssueUrl}$3)"): the
\* pattern has no g flag, so the first match alone is replaced.
ReplaceFix(s, baseIssueUrl) ==
  With(SearchFrom(s, 1), LAMBDA i :
    IF i = 0 THEN s
    ELSE With(MatchAt(s, i), LAMBDA m :
           SubSeq(s, 1, i - 1)
           \o <<"C","l","o","s","e","s"," ","[","#">> \o m.digits
           \o <<"]","(">> \o baseIssueUrl \o m.digits \o <<")">>
           \o SubSeq(s, m.last + 1, Len(s))))

\* ------------------------------------------------------------ exceptions
\* Reading a property of undefined throws a TypeError; reading one of any
\* other value does not.
ThrowsOnAccess(obj) == obj = None

\* --------------------------------------------------------------- constants
UNRELEASED_TAG == <<"___unreleased___">>

\* The atom of the backquote character, which a TLA+ string cannot hold.
Backquote == "BACKQUOTE"

\* -------------------------------------------------- default Array.sort()
\* UTF-16 code unit order of the characters that occur in contributor lines.
Ascii == <<" ", "#", "(", ")", ",", "-", "/",
           "0", "1", "2", "3", "4", "5", "6", "7", "8", "9",
           "A", "B", "C", "Z", "[", "]", "a", "b", "m", "o", "y", "z">>

CharCode(c) == CHOOSE k \in 1..Len(Ascii) : Ascii[k] = c

\* a < b as the default comparator of Array.prototype.sort decides it.
RECURSIVE StringLess(_, _)
StringLess(a, b) ==
  IF b = <<>> THEN FALSE
  ELSE IF a = <<>> THEN TRUE
  ELSE IF a[1] = b[1] THEN StringLess(Tail(a), Tail(b))
  ELSE CharCode(a[1]) < CharCode(b[1])

RECURSIVE InsertSorted(_, _)
InsertSorted(sorted, line) ==
  IF sorted = <<>> THEN <<line>>
  ELSE IF StringLess(line, sorted[1]) THEN <<line>> \o sorted
  ELSE <<sorted[1]>> \o InsertSorted(Tail(sorted), line)

RECURSIVE Sort(_)
Sort(lines) ==
  IF lines = <<>> THEN <<>>
  ELSE InsertSorted(Sort(SubSeq(lines, 1, Len(lines) - 1)), lines[Len(lines)])

\* ------------------------------------------------------------ contributors

renderContributor(contributor) ==
  LET userNameAndLink ==
        <<"[">> \o contributor.login \o <<"]", "(">> \o contributor.html_url \o <<")">>
  IN IF Truthy(contributor.name)
     THEN Val(contributor.name) \o <<" ", "(">> \o userNameAndLink \o <<")">>
     ELSE userNameAndLink

\* renderContributorList sorting the array it is given (by rendered line)
\* before it renders it.
renderContributorList_SortInPlace(contributors) ==
  IF ThrowsOnAccess(contributors)
  THEN [threw |-> TRUE, contributors |-> contributors, md |-> <<>>]
  ELSE
    LET list == Val(contributors)
        line(c) == <<"-", " ">> \o renderContributor(c)
        renderedContributors == Sort([k \in 1..Len(list) |-> line(list[k])])
    IN [threw |-> FALSE,
        contributors |->
          Some([k \in 1..Len(list) |->
                  CHOOSE c \in {list[n] : n \in 1..Len(list)} :
                    line(c) = renderedContributors[k]]),
        md |-> <<"#### Committers: ">> \o NumberToString(Len(list))
               \o <<"\n">> \o Join(renderedContributors, <<"\n">>)]

\* contributors.map(...) builds a new array, and it is the new array that is
\* sorted: the array passed in comes back as it was.
renderContributorList(contributors) ==
  IF ThrowsOnAccess(contributors)
  THEN [threw |-> TRUE, contributors |-> contributors, md |-> <<>>]
  ELSE
    LET list == Val(contributors)
        renderedContributors ==
          Sort([k \in 1..Len(list) |-> <<"-", " ">> \o renderContributor(list[k])])
    IN [threw |-> FALSE,
        contributors |-> contributors,
        md |-> <<"#### Committers: ">> \o NumberToString(Len(list))
               \o <<"\n">> \o Join(renderedContributors, <<"\n">>)]

\* ----------------------------------------------------------- contributions

\* renderContribution without the test of commit.githubIssue: reading
\* issue.number of an absent issue throws.
renderContribution_NoGuard(commits, i, baseIssueUrl) ==
  LET githubIssue == commits[i].githubIssue
  IN IF ThrowsOnAccess(githubIssue)
     THEN [threw |-> TRUE, commits |-> commits, out |-> None]
     ELSE
       LET issue == Val(githubIssue)
           link ==
             IF /\ issue.number # 0
                /\ issue.pull_request # None
                /\ Val(issue.pull_request).html_url # <<>>
             THEN <<"[#">> \o NumberToString(issue.number) \o <<"](">>
                  \o Val(issue.pull_request).html_url \o <<") ">>
             ELSE <<>>
       IN With(IF issue.title # <<>> /\ COMMIT_FIX_REGEX(issue.title)
               THEN ReplaceFix(issue.title, baseIssueUrl)
               ELSE issue.title,
               LAMBDA title :
          [threw |-> FALSE,
           commits |-> [commits EXCEPT ![i].githubIssue = Some([issue EXCEPT !.title = title])],
           out |-> Some(link \o title \o <<". ([@">> \o issue.user.login \o <<"](">>
                        \o issue.user.html_url \o <<"))">>)])

\* renderContribution(commit), commit being commits[i].  Returns the commits
\* as the call leaves them (the issue title is edited in place), the string
\* returned (None: the function falls off its end) and whether it threw.
renderContribution(commits, i, baseIssueUrl) ==
  LET githubIssue == commits[i].githubIssue
  IN IF githubIssue # None
     THEN
       LET issue == Val(githubIssue)
           link ==
             IF /\ issue.number # 0
                /\ issue.pull_request # None
                /\ Val(issue.pull_request).html_url # <<>>
             THEN <<"[#">> \o NumberToString(issue.number) \o <<"](">>
                  \o Val(issue.pull_request).html_url \o <<") ">>
             ELSE <<>>
       IN With(IF issue.title # <<>> /\ COMMIT_FIX_REGEX(issue.title)
               THEN ReplaceFix(issue.title, baseIssueUrl)
               ELSE issue.title,
               LAMBDA title :
          [threw |-> ThrowsOnAccess(githubIssue),
           commits |-> [commits EXCEPT ![i].githubIssue = Some([issue EXCEPT !.title = title])],
           out |-> Some(link \o title \o <<". ([@">> \o issue.user.login \o <<"](">>
                        \o issue.user.html_url \o <<"))">>)])
     ELSE [threw |-> FALSE, commits |-> commits, out |-> None]

\* commits.map((commit) => this.renderContribution(commit)), left to right.
RECURSIVE MapRenderContribution(_, _, _)
MapRenderContribution(commits, idx, baseIssueUrl) ==
  IF idx = <<>> THEN [threw |-> FALSE, commits |-> commits, outs |-> <<>>]
  ELSE With(renderContribution(commits, idx[1], baseIssueUrl), LAMBDA first :
         IF first.threw
         THEN [threw |-> TRUE, commits |-> first.commits, outs |-> <<>>]
         ELSE With(MapRenderContribution(first.commits, Tail(idx), baseIssueUrl),
                   LAMBDA rest :
                [threw |-> rest.threw, commits |-> rest.commits,
                 outs |-> <<first.out>> \o rest.outs]))

\* renderContributionList(commits, prefix), commits being the commits at idx.
\* lines: the commits whose bullet line is in the text, in the order of the
\* lines.
renderContributionList(commits, idx, prefix, baseIssueUrl) ==
  With(MapRenderContribution(commits, idx, baseIssueUrl), LAMBDA mapped :
    LET rendered == FilterBoolean(mapped.outs)
        kept == SelectSeq([k \in 1..Len(mapped.outs) |-> k],
                          LAMBDA k : Truthy(mapped.outs[k]))
    IN [threw |-> mapped.threw,
        commits |-> mapped.commits,
        md |-> Join([k \in 1..Len(rendered) |-> prefix \o <<"* ">> \o rendered[k]],
                    <<"\n">>),
        lines |-> [k \in 1..Len(kept) |-> idx[kept[k]]]])

\* renderPackageNames that renders the first package name alone.
renderPackageNames_FirstOnly(packageNames) ==
  IF Len(packageNames) > 0
  THEN <<Backquote>> \o packageNames[1] \o <<Backquote>>
  ELSE <<"Other">>

renderPackageNames(packageNames) ==
  IF Len(packageNames) > 0
  THEN Join([k \in 1..Len(packageNames) |-> <<Backquote>> \o packageNames[k] \o <<Backquote>>],
            <<", ">>)
  ELSE <<"Other">>

hasPackages(commits, idx) ==
  \E k \in 1..Len(idx) :
     /\ commits[idx[k]].packages # None
     /\ Len(Val(commits[idx[k]].packages)) > 0

\* The loop with unshift in place of push: a commit goes to the front of the
\* commits of its key.
RECURSIVE GroupByPackage_Unshift(_, _, _)
GroupByPackage_Unshift(commits, idx, commitsByPackage) ==
  IF idx = <<>> THEN commitsByPackage
  ELSE
    LET commit == commits[idx[1]]
        changedPackages ==
          IF commit.packages # None THEN Val(commit.packages) ELSE <<>>
        packageName == renderPackageNames(changedPackages)
        at == {k \in 1..Len(commitsByPackage) : commitsByPackage[k].key = packageName}
    IN GroupByPackage_Unshift(commits, Tail(idx),
         IF at = {}
         THEN Append(commitsByPackage, [key |-> packageName, idx |-> <<idx[1]>>])
         ELSE [k \in 1..Len(commitsByPackage) |->
                 IF k \in at
                 THEN [commitsByPackage[k] EXCEPT !.idx = <<idx[1]>> \o @]
                 ELSE commitsByPackage[k]])

\* The loop with the keys kept in reverse order of their first commits, as
\* an object that lists its newest key first would give them.
RECURSIVE GroupByPackage_NewestKeyFirst(_, _, _)
GroupByPackage_NewestKeyFirst(commits, idx, commitsByPackage) ==
  IF idx = <<>> THEN commitsByPackage
  ELSE
    LET commit == commits[idx[1]]
        changedPackages ==
          IF commit.packages # None THEN Val(commit.packages) ELSE <<>>
        packageName == renderPackageNames(changedPackages)
        at == {k \in 1..Len(commitsByPackage) : commitsByPackage[k].key = packageName}
    IN GroupByPackage_NewestKeyFirst(commits, Tail(idx),
         IF at = {}
         THEN << [key |-> packageName, idx |-> <<idx[1]>>] >> \o commitsByPackage
         ELSE [k \in 1..Len(commitsByPackage) |->
                 IF k \in at
                 THEN [commitsByPackage[k] EXCEPT !.idx = Append(@, idx[1])]
                 ELSE commitsByPackage[k]])

\* The loop of renderContributionsByPackage that fills commitsByPackage.  The
\* object is a sequence of [key, idx] in the order the keys were added, which
\* is the order Object.keys gives them in: a key is "Other" or starts with a
\* backquote, so none is an array index.
RECURSIVE GroupByPackage(_, _, _)
GroupByPackage(commits, idx, commitsByPackage) ==
  IF idx = <<>> THEN commitsByPackage
  ELSE
    LET commit == commits[idx[1]]
        changedPackages ==
          IF commit.packages # None THEN Val(commit.packages) ELSE <<>>
        packageName == renderPackageNames(changedPackages)
        at == {k \in 1..Len(commitsByPackage) : commitsByPackage[k].key = packageName}
    IN GroupByPackage(commits, Tail(idx),
         IF at = {}
         THEN Append(commitsByPackage, [key |-> packageName, idx |-> <<idx[1]>>])
         ELSE [k \in 1..Len(commitsByPackage) |->
                 IF k \in at
                 THEN [commitsByPackage[k] EXCEPT !.idx = Append(@, idx[1])]
                 ELSE commitsByPackage[k]])

\* packageNames.map(...): one bullet per key, left to right.
RECURSIVE MapRenderPackage(_, _, _)
MapRenderPackage(commits, commitsByPackage, baseIssueUrl) ==
  IF commitsByPackage = <<>>
  THEN [threw |-> FALSE, commits |-> commits, outs |-> <<>>, groups |-> <<>>]
  ELSE
    LET entry == commitsByPackage[1]
    IN With(renderContributionList(commits, entry.idx, <<"  ">>, baseIssueUrl),
            LAMBDA list :
         IF list.threw
         THEN [threw |-> TRUE, commits |-> list.commits, outs |-> <<>>, groups |-> <<>>]
         ELSE With(MapRenderPackage(list.commits, Tail(commitsByPackage), baseIssueUrl),
                   LAMBDA rest :
                [threw |-> rest.threw,
                 commits |-> rest.commits,
                 outs |-> << <<"* ">> \o entry.key \o <<"\n">> \o list.md >> \o rest.outs,
                 groups |-> << [label |-> entry.key, commits |-> entry.idx,
                                lines |-> list.lines] >> \o rest.groups]))

\* groups: the bullets in the order of the text, each with its label, the
\* commits collected under it and the commits whose line is in the text.
renderContributionsByPackage(commits, idx, baseIssueUrl) ==
  LET commitsByPackage == GroupByPackage(commits, idx, <<>>)
  IN With(MapRenderPackage(commits, commitsByPackage, baseIssueUrl), LAMBDA mapped :
       [threw |-> mapped.threw,
        commits |-> mapped.commits,
        md |-> Join(mapped.outs, <<"\n">>),
        groups |-> mapped.groups])

\* groupByCategory putting a commit into the first configured category it
\* carries, and no other.
groupByCategory_FirstOnly(categories, allCommits) ==
  [c \in 1..Len(categories) |->
     [name |-> categories[c],
      commits |-> SelectSeq([i \in 1..Len(allCommits) |-> i],
                    LAMBDA i : /\ allCommits[i].categories # None
                               /\ Includes(Val(allCommits[i].categories),
                                           categories[c])
                               /\ \A b \in 1..(c - 1) :
                                     ~Includes(Val(allCommits[i].categories),
                                               categories[b]))]]

\* groupByCategory(allCommits): one entry per configured category, holding
\* (the indices of) the commits that carry its name, in the order of
\* allCommits.
groupByCategory(categories, allCommits) ==
  [c \in 1..Len(categories) |->
     [name |-> categories[c],
      commits |-> SelectSeq([i \in 1..Len(allCommits) |-> i],
                    LAMBDA i : /\ allCommits[i].categories # None
                               /\ Includes(Val(allCommits[i].categories),
                                           categories[c]))]]

\* ----------------------------------------------------------------- release

\* A call the renderer makes on the progress indicator (op init, setTitle,
\* tick, terminate), or the append of a category's content to the markdown
\* (op content), which stands in the trace where the code does it.
Event(op, total, title) == [op |-> op, total |-> total, title |-> title]

\* One iteration with tick() called before the content is rendered.
IterationTrace_TickFirst(category, threw) ==
  << Event("setTitle", 0,
           IF category.name # <<>> THEN category.name ELSE <<"Other">>),
     Event("tick", 0, <<>>),
     Event("content", 0, category.name) >>

\* What one iteration of the for loop adds to the trace: setTitle before the
\* content, tick after it (unless rendering the content threw).
IterationTrace(category, threw) ==
  << Event("setTitle", 0,
           IF category.name # <<>> THEN category.name ELSE <<"Other">>),
     Event("content", 0, category.name) >>
  \o (IF threw THEN <<>> ELSE << Event("tick", 0, <<>>) >>)

\* The for loop of renderRelease over categoriesWithCommits.
\* st: [commits, markdown, trace, layout, threw] as the iterations so far
\* left them.
RECURSIVE RenderCategories(_, _, _)
RenderCategories(st, categoriesWithCommits, baseIssueUrl) ==
  IF categoriesWithCommits = <<>> \/ st.threw THEN st
  ELSE
    LET category == categoriesWithCommits[1]
    IN With(hasPackages(st.commits, category.commits), LAMBDA byPackage :
       With(IF byPackage
            THEN renderContributionsByPackage(st.commits, category.commits,
                                              baseIssueUrl)
            ELSE With(renderContributionList(st.commits, category.commits, <<>>,
                                             baseIssueUrl),
                      LAMBDA list :
                   [threw |-> list.threw, commits |-> list.commits,
                    md |-> list.md,
                    groups |-> << [label |-> <<>>, commits |-> category.commits,
                                   lines |-> list.lines] >>]),
            LAMBDA body :
         RenderCategories(
           [commits |-> body.commits,
            markdown |-> st.markdown \o <<"\n\n#### ">> \o category.name \o <<"\n">>
                         \o body.md,
            trace |-> st.trace \o IterationTrace(category, body.threw),
            layout |-> Append(st.layout,
                              [name |-> category.name, commits |-> category.commits,
                               byPackage |-> byPackage, groups |-> body.groups]),
            threw |-> body.threw],
           Tail(categoriesWithCommits), baseIssueUrl)))

\* renderRelease(release) with this.options = options, the progress indicator
\* having seen the calls `seen` before.  Returns the release as the call
\* leaves it, the string returned, the calls the indicator has seen (with the
\* content appends in between), the layout of the text (one entry per
\* heading) and whether the call threw.
renderRelease(options, release, seen) ==
  With(groupByCategory(options.categories, release.commits), LAMBDA categories :
  With(SelectSeq(categories, LAMBDA category : Len(category.commits) > 0),
       LAMBDA categoriesWithCommits :
    IF Len(categoriesWithCommits) = 0
    THEN [threw |-> FALSE, release |-> release, markdown |-> <<>>,
          trace |-> seen, layout |-> <<>>]
    ELSE
      LET releaseTitle == IF release.name = UNRELEASED_TAG
                          THEN <<"Unreleased">> ELSE release.name
          withList == release.contributors # None
      IN With(RenderCategories(
                [commits |-> release.commits,
                 markdown |-> <<"## ">> \o releaseTitle \o <<" (">>
                              \o release.date \o <<")">>,
                 trace |-> Append(seen, Event("init", Len(categories), <<>>)),
                 layout |-> <<>>,
                 threw |-> FALSE],
                categoriesWithCommits, options.baseIssueUrl),
              LAMBDA loop :
         With(renderContributorList(release.contributors), LAMBDA list :
         With(loop.threw \/ (withList /\ list.threw), LAMBDA threw :
           [threw |-> threw,
            release |-> [release EXCEPT
                           !.commits = loop.commits,
                           !.contributors = IF withList /\ ~loop.threw
                                            THEN list.contributors ELSE @],
            markdown |-> IF threw THEN <<>>
                         ELSE IF withList
                         THEN loop.markdown \o <<"\n\n">> \o list.md
                         ELSE loop.markdown,
            trace |-> IF loop.threw THEN loop.trace
                      ELSE Append(loop.trace, Event("terminate", 0, <<>>)),
            layout |-> loop.layout])))))

\* releases.map((release) => this.renderRelease(release)), left to right.
RECURSIVE MapRenderRelease(_, _, _)
MapRenderRelease(options, releases, seen) ==
  IF releases = <<>>
  THEN [threw |-> FALSE, releases |-> <<>>, outs |-> <<>>, trace |-> seen,
        layouts |-> <<>>]
  ELSE
    With(renderRelease(options, releases[1], seen), LAMBDA first :
      IF first.threw
      THEN [threw |-> TRUE, releases |-> <<first.release>> \o Tail(releases),
            outs |-> <<>>, trace |-> first.trace, layouts |-> <<>>]
      ELSE With(MapRenderRelease(options, Tail(releases), first.trace), LAMBDA rest :
             [threw |-> rest.threw,
              releases |-> <<first.release>> \o rest.releases,
              outs |-> <<Some(first.markdown)>> \o rest.outs,
              trace |-> rest.trace,
              layouts |-> <<first.layout>> \o rest.layouts]))

\* renderMarkdown without its .filter(Boolean).
renderMarkdown_NoFilter(options, releases, seen) ==
  With(MapRenderRelease(options, releases, seen), LAMBDA mapped :
    [threw |-> mapped.threw,
     releases |-> mapped.releases,
     markdown |-> IF mapped.threw THEN <<>>
                  ELSE <<"\n">> \o Join([k \in 1..Len(mapped.outs) |->
                                           Val(mapped.outs[k])], <<"\n\n\n">>),
     parts |-> mapped.outs,
     trace |-> mapped.trace,
     layouts |-> mapped.layouts])

renderMarkdown(options, releases, seen) ==
  With(MapRenderRelease(options, releases, seen), LAMBDA mapped :
    [threw |-> mapped.threw,
     releases |-> mapped.releases,
     markdown |-> IF mapped.threw THEN <<>>
                  ELSE <<"\n">> \o Join(FilterBoolean(mapped.outs), <<"\n\n\n">>),
     parts |-> mapped.outs,
     trace |-> mapped.trace,
     layouts |-> mapped.layouts])

\* ------------------------------------------------------------------ inputs

MaxCommits == 3
MaxReleases == 3

Bug == <<"Bug">>
Feature == <<"Feature">>
Docs == <<"Docs">>

\* options.categories, in lerna.json order; "" is a string like any other.
Configs ==
  { [categories |-> cs, baseIssueUrl |-> <<"u", "/">>] :
      cs \in { <<Bug, Feature>>, << <<>>, Bug >> } }

TitlePlain == <<"A", "d", "d", " ", "x">>
TitleOneFix == <<"f", "i", "x", "e", "s", " ", "#", "4", "2">>
TitleTwoFixes == <<"F", "i", "x", " ", "T", "1", ",", " ",
                   "c", "l", "o", "s", "e", "s", " ", "#", "2">>

Issue(number, pull_request, title) ==
  [number |-> number, pull_request |-> pull_request, title |-> title,
   user |-> [login |-> <<"amy">>, html_url |-> <<"https://github.com/amy">>]]

PullRequest == Some([html_url |-> <<"https://github.com/o/r/pull/7">>])

Commit(categories, packages, githubIssue) ==
  [categories |-> categories, packages |-> packages, githubIssue |-> githubIssue]

CommitPool ==
  { Commit(Some(<<Bug>>), Some(<< <<"core">> >>),
           Some(Issue(7, PullRequest, TitlePlain))),
    Commit(Some(<<Bug>>), Some(<< <<"core">>, <<"utils">> >>),
           Some(Issue(0, PullRequest, TitleOneFix))),
    Commit(Some(<< Bug, <<>> >>), Some(<< <<"utils">>, <<"core">> >>),
           Some(Issue(8, None, TitlePlain))),
    Commit(Some(<<Feature, Bug>>), None,
           Some(Issue(9, PullRequest, TitleTwoFixes))),
    Commit(Some(<<Feature>>), Some(<<>>), None),
    Commit(Some(<<Docs>>), Some(<< <<"core">> >>),
           Some(Issue(7, PullRequest, TitlePlain))),
    Commit(None, None, None) }

PlainPool ==
  { Commit(Some(<<Bug>>), None, Some(Issue(7, PullRequest, TitlePlain))),
    Commit(Some(<<Docs>>), None, Some(Issue(7, PullRequest, TitlePlain))) }

Amy == [login |-> <<"a", "m", "y">>, name |-> None, html_url |-> <<"a">>]
Zed == [login |-> <<"z">>, name |-> Some(<<"B", "o", "b">>), html_url |-> <<"z">>]

\* name, date and contributors of a release.
Heads ==
  { [name |-> UNRELEASED_TAG, date |-> <<"2017-02-01">>, contributors |-> None],
    [name |-> <<"v1.0.0">>, date |-> <<"2017-01-01">>,
     contributors |-> Some(<<Amy, Zed>>)],
    [name |-> <<"v0.9.0">>, date |-> <<"2016-12-01">>, contributors |-> Some(<<>>)] }

Release(head, commits) ==
  [name |-> head.name, date |-> head.date, commits |-> commits,
   contributors |-> head.contributors]

SeqsUpTo(S, n) == UNION { [1..k -> S] : k \in 0..n }

\* One release of up to MaxCommits commits of every shape.
RichReleases == { Release(h, cs) : h \in Heads, cs \in SeqsUpTo(CommitPool, MaxCommits) }

\* Releases of at most one commit, for the lists of several releases.
PlainReleases ==
  { Release(h, cs) : h \in {h \in Heads : h.contributors # Some(<<>>)},
                     cs \in {<<>>} \cup { <<c>> : c \in PlainPool } }

Inputs ==
  { <<r>> : r \in RichReleases } \cup SeqsUpTo(PlainReleases, MaxReleases)

\* ------------------------------------------------------------ state machine

VARIABLES
  options,   \* this.options of the renderer
  input,     \* the releases as the caller built them
  releases,  \* the same objects as the calls so far left them
  call,      \* the last call: [op, arg]
  result,    \* the string it returned
  status,    \* "ok", or "TypeError" if it threw
  trace,     \* the events of the last call, in order
  parts,     \* the renderRelease results of the last call, one per release
  layouts    \* their layouts

vars == <<options, input, releases, call, result, status, trace, parts, layouts>>

Init ==
  /\ options \in Configs
  /\ input \in Inputs
  /\ releases = input
  /\ call = [op |-> "none", arg |-> 0]
  /\ result = <<>>
  /\ status = "ok"
  /\ trace = <<>>
  /\ parts = <<>>
  /\ layouts = <<>>

RenderRelease(i) ==
  \E r \in {renderRelease(options, releases[i], <<>>)} :
     /\ releases' = [releases EXCEPT ![i] = r.release]
     /\ call' = [op |-> "renderRelease", arg |-> i]
     /\ result' = r.markdown
     /\ status' = IF r.threw THEN "TypeError" ELSE "ok"
     /\ trace' = r.trace
     /\ parts' = <<Some(r.markdown)>>
     /\ layouts' = <<r.layout>>
     /\ UNCHANGED <<options, input>>

RenderMarkdown ==
  \E r \in {renderMarkdown(options, releases, <<>>)} :
     /\ releases' = r.releases
     /\ call' = [op |-> "renderMarkdown", arg |-> 0]
     /\ result' = r.markdown
     /\ status' = IF r.threw THEN "TypeError" ELSE "ok"
     /\ trace' = r.trace
     /\ parts' = r.parts
     /\ layouts' = r.layouts
     /\ UNCHANGED <<options, input>>

Next ==
  \/ \E i \in 1..Len(releases) : RenderRelease(i)
  \/ RenderMarkdown

Spec == Init /\ [][Next]_vars

\* ------------------------------------------------------------- properties

\* The releases the last call rendered, and what it made of each.
RenderedReleases ==
  CASE call.op = "renderRelease" -> {call.arg}
    [] call.op = "renderMarkdown" -> 1..Len(releases)
    [] OTHER -> {}

LayoutOf(r) == IF call.op = "renderRelease" THEN layouts[1] ELSE layouts[r]
MarkdownOf(r) == Val(IF call.op = "renderRelease" THEN parts[1] ELSE parts[r])

Indices(seq) == [k \in 1..Len(seq) |-> k]
Range(seq) == { seq[k] : k \in 1..Len(seq) }
Count(md, atom) == Cardinality({ p \in 1..Len(md) : md[p] = atom })
IsIncreasing(seq) == \A k \in 1..(Len(seq) - 1) : seq[k] < seq[k + 1]

RECURSIVE Concat(_)
Concat(seqs) == IF seqs = <<>> THEN <<>> ELSE seqs[1] \o Concat(Tail(seqs))

\* The commit carries the category label.
Carries(commit, name) ==
  commit.categories # None /\ Includes(Val(commit.categories), name)

\* The release has a commit that carries a configured category.
HasConfiguredCommit(release) ==
  \E i \in 1..Len(release.commits) : \E c \in 1..Len(options.categories) :
     Carries(release.commits[i], options.categories[c])

\* The category headings of a rendered release, read off its text: what
\* stands between each "\n\n#### " and the "\n" that ends the heading line.
Headings(md) ==
  LET at == SelectSeq(Indices(md), LAMBDA p : md[p] = "\n\n#### ")
  IN [k \in 1..Len(at) |->
        IF md[at[k] + 1] = "\n" THEN <<>> ELSE <<md[at[k] + 1]>>]

\* C1: renderMarkdown returns one leading newline followed by the renderings
\* of exactly the releases that have a commit carrying a configured category,
\* in input order, joined by "\n\n\n"; a release without such a commit renders
\* to "" in renderRelease and adds neither text nor a separator, so a list of
\* such releases alone gives "\n".
C1_OnlyMatchingReleasesJoined ==
  /\ status = "ok"
  /\ \A r \in RenderedReleases :
        (MarkdownOf(r) = <<>>) <=> ~HasConfiguredCommit(releases[r])
  /\ call.op = "renderMarkdown" =>
       LET keep == SelectSeq(Indices(releases),
                             LAMBDA r : HasConfiguredCommit(releases[r]))
       IN /\ result = <<"\n">> \o Join([k \in 1..Len(keep) |-> MarkdownOf(keep[k])],
                                       <<"\n\n\n">>)
          /\ Count(result, "\n\n\n") = (IF keep = <<>> THEN 0 ELSE Len(keep) - 1)
          /\ keep = <<>> => result = <<"\n">>

\* A list of three releases, the middle one without a configured commit and
\* the other two with one, has been rendered by renderMarkdown.
C1_Witness ==
  /\ call.op = "renderMarkdown"
  /\ Len(releases) = 3
  /\ HasConfiguredCommit(releases[1])
  /\ ~HasConfiguredCommit(releases[2])
  /\ HasConfiguredCommit(releases[3])
  /\ Count(result, "\n\n\n") = 1

\* The categories of options.categories that some commit of the release
\* carries, in configured order.
ExpectedNames(release) ==
  SelectSeq(options.categories,
            LAMBDA name : \E i \in 1..Len(release.commits) :
                             Carries(release.commits[i], name))

\* The commits whose bullet line stands under the heading, in text order.
LinesOf(entry) == Concat([g \in 1..Len(entry.groups) |-> entry.groups[g].lines])

\* C2: the category headings of a rendered release stand in the order of the
\* configured category list whatever the order of the commits; a commit is in
\* the bucket of every configured category whose label it carries (and has
\* its line there if it has a linked issue), and a commit that carries no
\* configured category is under no heading.
C2_CategoryOrderAndMembership ==
  \A r \in RenderedReleases :
    LET layout == LayoutOf(r)
        commits == releases[r].commits
    IN /\ [k \in 1..Len(layout) |-> layout[k].name] = ExpectedNames(releases[r])
       /\ Headings(MarkdownOf(r)) = ExpectedNames(releases[r])
       /\ \A k \in 1..Len(layout) : \A i \in 1..Len(commits) :
             /\ (i \in Range(layout[k].commits)) <=> Carries(commits[i], layout[k].name)
             /\ (i \in Range(LinesOf(layout[k]))) <=>
                  (Carries(commits[i], layout[k].name) /\ commits[i].githubIssue # None)

\* Configured [Bug, Feature]: a release whose first commit carries Feature and
\* Bug and stands under both headings, Bug first, while another commit, which
\* carries no configured category, stands under none.
C2_Witness ==
  /\ call.op = "renderRelease"
  /\ options.categories = <<Bug, Feature>>
  /\ LET layout == LayoutOf(call.arg)
         commits == releases[call.arg].commits
     IN /\ Len(layout) = 2
        /\ layout[1].name = Bug /\ layout[2].name = Feature
        /\ commits[1].categories = Some(<<Feature, Bug>>)
        /\ 1 \in Range(LinesOf(layout[1])) /\ 1 \in Range(LinesOf(layout[2]))
        /\ \E i \in 1..Len(commits) :
              /\ commits[i].categories = Some(<<Docs>>)
              /\ \A k \in 1..Len(layout) : i \notin Range(layout[k].commits)

\* Those of the commits at idx that have a linked issue.
WithIssue(commits, idx) == SelectSeq(idx, LAMBDA i : commits[i].githubIssue # None)

\* C3 as stated: within each rendered category the commit lines stand in the
\* relative order of the commits in the release, also when the category is
\* rendered grouped by package.
C3_LinesInInputOrder ==
  \A r \in RenderedReleases : \A k \in 1..Len(LayoutOf(r)) :
     IsIncreasing(LinesOf(LayoutOf(r)[k]))

\* C3 amended: the bucket of a category holds its commits in input order; a
\* flat category lists the lines of its commits in that order; a category
\* grouped by package lists, under each package bullet, the lines of that
\* bullet's commits in input order, the bullets standing in the order of
\* their first commits (so that lines of different bullets may be out of
\* input order).
C3_LinesInInputOrderPerGroup ==
  \A r \in RenderedReleases : \A k \in 1..Len(LayoutOf(r)) :
    LET entry == LayoutOf(r)[k]
        commits == releases[r].commits
    IN /\ IsIncreasing(entry.commits)
       /\ \A g \in 1..Len(entry.groups) :
             /\ IsIncreasing(entry.groups[g].commits)
             /\ entry.groups[g].lines =
                  WithIssue(commits, entry.groups[g].commits)
       /\ ~entry.byPackage =>
             LinesOf(entry) = WithIssue(commits, entry.commits)
       /\ entry.byPackage =>
             \A g \in 1..(Len(entry.groups) - 1) :
                entry.groups[g].commits[1] < entry.groups[g + 1].commits[1]

\* A category grouped by package whose lines, read top to bottom, are not in
\* input order although those under each bullet are.
C3_Witness ==
  \E r \in RenderedReleases : \E k \in 1..Len(LayoutOf(r)) :
     /\ LayoutOf(r)[k].byPackage
     /\ ~IsIncreasing(LinesOf(LayoutOf(r)[k]))
     /\ \E g \in 1..Len(LayoutOf(r)[k].groups) :
           Len(LayoutOf(r)[k].groups[g].lines) = 2

\* The package names of a commit as it lists them (none: the empty list).
PackageList(commit) ==
  IF commit.packages = None THEN <<>> ELSE Val(commit.packages)

\* The label of a commit's package list: the names in listed order, each
\* between backquotes, joined by ", "; "Other" for the empty list.
ListedLabel(commit) ==
  IF PackageList(commit) = <<>> THEN <<"Other">>
  ELSE Join([n \in 1..Len(PackageList(commit)) |->
               <<Backquote>> \o PackageList(commit)[n] \o <<Backquote>>],
            <<", ">>)

\* The bullet of the category under which commit i is collected.
GroupOf(entry, i) ==
  CHOOSE g \in 1..Len(entry.groups) : i \in Range(entry.groups[g].commits)

\* C4 as stated: in group-by-package rendering two commits of a category with
\* the same set of package names are under one and the same package heading,
\* whatever the order in which each lists its packages.
C4_SameSetSameHeading ==
  \A r \in RenderedReleases : \A k \in 1..Len(LayoutOf(r)) :
    LET entry == LayoutOf(r)[k]
        commits == releases[r].commits
    IN entry.byPackage =>
         \A i, j \in Range(entry.commits) :
            Range(PackageList(commits[i])) = Range(PackageList(commits[j]))
              => GroupOf(entry, i) = GroupOf(entry, j)

\* C4 amended: the grouping key is the package names joined in the order the
\* commit lists them (not sorted): every commit of the category is under
\* exactly one bullet, whose label is its own listed label, and two commits
\* that list the same package names in the same order are under one and the
\* same bullet.
C4_SameListSameHeading ==
  \A r \in RenderedReleases : \A k \in 1..Len(LayoutOf(r)) :
    LET entry == LayoutOf(r)[k]
        commits == releases[r].commits
    IN entry.byPackage =>
         /\ \A i \in Range(entry.commits) :
               /\ Cardinality({ g \in 1..Len(entry.groups) :
                                  i \in Range(entry.groups[g].commits) }) = 1
               /\ entry.groups[GroupOf(entry, i)].label = ListedLabel(commits[i])
         /\ \A i, j \in Range(entry.commits) :
               PackageList(commits[i]) = PackageList(commits[j])
                 => GroupOf(entry, i) = GroupOf(entry, j)

\* A category with two commits listing the same packages in the same order
\* (one bullet) and a third listing the same packages in another order
\* (another bullet).
C4_Witness ==
  \E r \in RenderedReleases : \E k \in 1..Len(LayoutOf(r)) :
    LET entry == LayoutOf(r)[k]
        commits == releases[r].commits
    IN /\ entry.byPackage
       /\ \E i, j, l \in Range(entry.commits) :
             /\ i # j
             /\ PackageList(commits[i]) = PackageList(commits[j])
             /\ GroupOf(entry, i) = GroupOf(entry, j)
             /\ PackageList(commits[l]) # PackageList(commits[i])
             /\ Range(PackageList(commits[l])) = Range(PackageList(commits[i]))
             /\ GroupOf(entry, l) # GroupOf(entry, i)

RECURSIVE Sum(_)
Sum(seq) == IF seq = <<>> THEN 0 ELSE seq[1] + Sum(Tail(seq))

\* The bullets of a text that are not nested under a package bullet.
TopBullets(md) ==
  Cardinality({ p \in 1..Len(md) : md[p] = "* " /\ (p = 1 \/ md[p - 1] # "  ") })

\* C5: in group-by-package rendering there is exactly one bullet per distinct
\* package label, the bullets stand in the order in which each label is first
\* seen among the category's commits, and the commits without packages are
\* collected under "Other".
C5_OneBulletPerLabelFirstSeen ==
  \A r \in RenderedReleases :
    LET layout == LayoutOf(r)
        commits == releases[r].commits
    IN /\ \A k \in 1..Len(layout) : layout[k].byPackage =>
            LET entry == layout[k]
                labels == [g \in 1..Len(entry.groups) |-> entry.groups[g].label]
                firstSeen(label) ==
                  CHOOSE p \in 1..Len(entry.commits) :
                    /\ ListedLabel(commits[entry.commits[p]]) = label
                    /\ \A q \in 1..(p - 1) :
                          ListedLabel(commits[entry.commits[q]]) # label
            IN /\ \A g, h \in 1..Len(labels) : labels[g] = labels[h] => g = h
               /\ Range(labels) =
                    { ListedLabel(commits[i]) : i \in Range(entry.commits) }
               /\ \A g \in 1..(Len(labels) - 1) :
                     firstSeen(labels[g]) < firstSeen(labels[g + 1])
               /\ \A i \in Range(entry.commits) :
                     PackageList(commits[i]) = <<>>
                       => entry.groups[GroupOf(entry, i)].label = <<"Other">>
       /\ TopBullets(MarkdownOf(r)) =
            Sum([k \in 1..Len(layout) |->
                   IF layout[k].byPackage THEN Len(layout[k].groups)
                   ELSE Len(LinesOf(layout[k]))])
       /\ Count(MarkdownOf(r), "Other") =
            Sum([k \in 1..Len(layout) |->
                   Cardinality({ g \in 1..Len(layout[k].groups) :
                                   layout[k].groups[g].label = <<"Other">> })])

\* Commits with packages [core], [core, utils] and none, in that order, give
\* the three bullets core; core, utils; Other, in that order.
C5_Witness ==
  \E r \in RenderedReleases : \E k \in 1..Len(LayoutOf(r)) :
    LET entry == LayoutOf(r)[k]
    IN /\ entry.byPackage
       /\ [g \in 1..Len(entry.groups) |-> entry.groups[g].label] =
            << <<Backquote, "core", Backquote>>,
               <<Backquote, "core", Backquote, ", ", Backquote, "utils", Backquote>>,
               <<"Other">> >>

\* The title of the issue linked to commit i of release r.
TitleOf(rels, r, i) == Val(rels[r].commits[i].githubIssue).title

\* A title with every match of the pattern rewritten, left to right.
RECURSIVE RewriteAll(_, _)
RewriteAll(s, baseIssueUrl) ==
  LET i == SearchFrom(s, 1)
      m == MatchAt(s, i)
  IN IF i = 0 THEN s
     ELSE SubSeq(s, 1, i - 1)
          \o <<"C","l","o","s","e","s"," ","[","#">> \o m.digits
          \o <<"]","(">> \o baseIssueUrl \o m.digits \o <<")">>
          \o RewriteAll(SubSeq(s, m.last + 1, Len(s)), baseIssueUrl)

\* C6 as stated: when a commit line is rendered every substring of the issue
\* title that matches the fix/close/resolve pattern is rewritten to
\* Closes [#N](<baseIssueUrl>N), so that after one rendering of the commit
\* its title holds no match of the pattern, also when it held several.
C6_NoMatchLeftAfterRendering ==
  \A r \in RenderedReleases : \A k \in 1..Len(LayoutOf(r)) :
     \A i \in Range(LinesOf(LayoutOf(r)[k])) :
        /\ ~COMMIT_FIX_REGEX(TitleOf(releases, r, i))
        /\ TitleOf(releases, r, i) =
             RewriteAll(TitleOf(input, r, i), options.baseIssueUrl)

\* C7 as stated: rendering the same release twice in a row gives the same
\* markdown both times, and the second rendering changes no issue title.
C7_SecondRenderingIdentical ==
  [][(call.op # "none" /\ call' = call)
       => (result' = result /\ releases' = releases)]_vars

\* The releases with every issue title blanked.
EraseTitles(rels) ==
  [r \in 1..Len(rels) |->
     [rels[r] EXCEPT !.commits =
        [i \in 1..Len(rels[r].commits) |->
           LET commit == rels[r].commits[i]
           IN IF commit.githubIssue = None THEN commit
              ELSE [commit EXCEPT !.githubIssue =
                      Some([Val(commit.githubIssue) EXCEPT !.title = <<>>])]]]]

\* C8: after any sequence of calls the list of releases, each release's name,
\* date, commit sequence and contributor list (order included), each commit's
\* categories and packages and every issue field other than title are as the
\* caller built them, and a title differs only if it matched the pattern.
C8_OnlyTitlesChange ==
  /\ EraseTitles(releases) = EraseTitles(input)
  /\ \A r \in 1..Len(input) : \A i \in 1..Len(input[r].commits) :
        (/\ input[r].commits[i].githubIssue # None
         /\ TitleOf(releases, r, i) # TitleOf(input, r, i))
          => COMMIT_FIX_REGEX(TitleOf(input, r, i))

\* The contributor lines of a release, in the order of its contributors.
ContributorLines(release) ==
  [k \in 1..Len(Val(release.contributors)) |->
     <<"-", " ">> \o renderContributor(Val(release.contributors)[k])]

\* A release has been rendered whose contributor lines come out in another
\* order than its contributors, and the title of one of its issues has been
\* rewritten.
C8_Witness ==
  \E r \in RenderedReleases :
     /\ MarkdownOf(r) # <<>>
     /\ releases[r].contributors # None
     /\ Sort(ContributorLines(releases[r])) # ContributorLines(releases[r])
     /\ \E i \in 1..Len(releases[r].commits) :
           /\ releases[r].commits[i].githubIssue # None
           /\ TitleOf(releases, r, i) # TitleOf(input, r, i)

\* C9: no call throws although packages, linked issues and contributors may
\* each be absent; the fragment is left out instead: a commit without a
\* linked issue has no bullet line, a commit without packages is listed flat
\* or under "Other", a release without contributors has no contributor
\* section.
C9_AbsentFieldsAreSkipped ==
  /\ status = "ok"
  /\ \A r \in RenderedReleases :
       LET layout == LayoutOf(r)
           commits == releases[r].commits
           md == MarkdownOf(r)
       IN /\ \A k \in 1..Len(layout) : \A i \in Range(layout[k].commits) :
               /\ commits[i].githubIssue = None => i \notin Range(LinesOf(layout[k]))
               /\ commits[i].packages = None =>
                    \/ ~layout[k].byPackage
                    \/ layout[k].groups[GroupOf(layout[k], i)].label = <<"Other">>
          /\ Count(md, "* ") =
               Sum([k \in 1..Len(layout) |->
                      (IF layout[k].byPackage THEN Len(layout[k].groups) ELSE 0)
                      + Len(WithIssue(commits, layout[k].commits))])
          /\ Count(md, "#### Committers: ") =
               (IF releases[r].contributors = None \/ md = <<>> THEN 0 ELSE 1)

\* A release without contributors has been rendered in which a commit without
\* a linked issue is in a category and a commit without packages is in a
\* category grouped by package.
C9_Witness ==
  \E r \in RenderedReleases :
    LET layout == LayoutOf(r)
        commits == releases[r].commits
    IN /\ MarkdownOf(r) # <<>>
       /\ releases[r].contributors = None
       /\ \E k \in 1..Len(layout) : \E i \in Range(layout[k].commits) :
             commits[i].githubIssue = None
       /\ \E k \in 1..Len(layout) : \E i \in Range(layout[k].commits) :
             commits[i].packages = None /\ layout[k].byPackage

\* The trace of one renderRelease that returns text: init, then per heading
\* setTitle, the content and one tick, then terminate.  title(name) is what
\* setTitle is given for the category name.
ReleaseTrace(layout, title(_)) ==
  << Event("init", Len(options.categories), <<>>) >>
  \o Concat([k \in 1..Len(layout) |->
               << Event("setTitle", 0, title(layout[k].name)),
                  Event("content", 0, layout[k].name),
                  Event("tick", 0, <<>>) >>])
  \o << Event("terminate", 0, <<>>) >>

\* The trace of the last call: that of each release it rendered in turn,
\* nothing for a release that rendered to "".
CallTrace(title(_)) ==
  LET rendered == SelectSeq(Indices(releases), LAMBDA r : r \in RenderedReleases)
  IN Concat([n \in 1..Len(rendered) |->
               IF MarkdownOf(rendered[n]) = <<>> THEN <<>>
               ELSE ReleaseTrace(LayoutOf(rendered[n]), title)])

\* What the progress indicator may have seen before a call.
EarlierCalls == { << Event("tick", 0, <<>>) >>,
                  << Event("init", 1, <<>>), Event("setTitle", 0, Bug) >> }

\* The text returned does not depend on what the indicator has seen.
IndicatorIgnored ==
  call.op = "renderRelease" =>
    LET unseen == renderRelease(options, releases[call.arg], <<>>)
    IN \A seen \in EarlierCalls :
          LET again == renderRelease(options, releases[call.arg], seen)
          IN /\ again.markdown = unseen.markdown
             /\ again.trace = seen \o unseen.trace

NameItself(name) == name
NameOrOther(name) == IF name = <<>> THEN <<"Other">> ELSE name

\* C10 as stated: for a release that renders non-empty the indicator sees one
\* init(totalSteps), then for each non-empty category in configured order
\* setTitle(category name) before the content and one tick after it, then one
\* terminate; never more ticks than totalSteps; no call for a release that
\* renders empty; and the markdown is the same whatever the indicator does.
C10_ProgressCalls ==
  /\ trace = CallTrace(NameItself)
  /\ \A r \in RenderedReleases : Len(LayoutOf(r)) <= Len(options.categories)
  /\ IndicatorIgnored

\* C10 amended: the same, except that setTitle is given "Other" for a
\* category whose name is the empty string.
C10_ProgressCallsOtherForEmptyName ==
  /\ trace = CallTrace(NameOrOther)
  /\ \A r \in RenderedReleases : Len(LayoutOf(r)) <= Len(options.categories)
  /\ IndicatorIgnored

\* Configured ["", Bug]: renderRelease has returned text for a release with
\* commits in the category named "" and in Bug: init(2), two setTitle calls,
\* the first with "Other", each followed by the content and a tick.
C10_Witness ==
  /\ call.op = "renderRelease"
  /\ result # <<>>
  /\ Len(trace) = 8
  /\ trace[1] = Event("init", 2, <<>>)
  /\ trace[2] = Event("setTitle", 0, <<"Other">>)
  /\ trace[3] = Event("content", 0, <<>>)
  /\ trace[5] = Event("setTitle", 0, Bug)
  /\ trace[8] = Event("terminate", 0, <<>>)
====
